---- MODULE Spec2Model ----
(***************************************************************************)
(* Model of the Z.ai shell-environment provisioner of sneakpeek            *)
(* (src/core/shell-env.ts) and of the settings writer of the variant tools *)
(* (scripts/variant-tools.ts).                                             *)
(*                                                                         *)
(* Strings are TLA+ strings; TLC evaluates Len, SubSeq and \o on them, so  *)
(* the JavaScript string methods the code uses are modelled character by   *)
(* character (0-based indexes as in JavaScript).                           *)
(***************************************************************************)
EXTENDS Integers, Sequences, FiniteSets, TLC

----------------------------------------------------------------------------
(* JavaScript values: null / undefined, and strings.                       *)

NULL == [isNull |-> TRUE]

Str(s) == [isNull |-> FALSE, str |-> s]

Num(n) == [isNull |-> FALSE, num |-> n]

IsString(v) == "str" \in DOMAIN v

----------------------------------------------------------------------------
(* JavaScript string methods.                                              *)

\* s[i], 0-based
CharAt(s, i) == SubSeq(s, i + 1, i + 1)

\* the characters String.prototype.trim removes (those the model's inputs use)
WhiteSpace == {" ", "\t", "\n", "\r"}

\* s.slice(from)
SliceFrom(s, from) ==
    LET n == Len(s)
        a == IF from < 0 THEN (IF n + from < 0 THEN 0 ELSE n + from)
                         ELSE (IF from > n THEN n ELSE from)
    IN  SubSeq(s, a + 1, n)

\* s.slice(from, to)
Slice(s, from, to) ==
    LET n == Len(s)
        a == IF from < 0 THEN (IF n + from < 0 THEN 0 ELSE n + from)
                         ELSE (IF from > n THEN n ELSE from)
        b == IF to < 0 THEN (IF n + to < 0 THEN 0 ELSE n + to)
                       ELSE (IF to > n THEN n ELSE to)
    IN  SubSeq(s, a + 1, b)

SetMin(S) == CHOOSE x \in S : \A y \in S : x <= y

SetMax(S) == CHOOSE x \in S : \A y \in S : x >= y

\* s.trimEnd(): s up to its last character that is no white space
TrimEnd(s) ==
    SubSeq(s, 1, CHOOSE n \in 0..Len(s) :
                     /\ n = 0 \/ SubSeq(s, n, n) \notin WhiteSpace
                     /\ \A j \in (n + 1)..Len(s) : SubSeq(s, j, j) \in WhiteSpace)

\* s.trimStart(): s from its first character that is no white space
TrimStart(s) ==
    SubSeq(s, 1 + (CHOOSE i \in 0..Len(s) :
                       /\ i = Len(s) \/ SubSeq(s, i + 1, i + 1) \notin WhiteSpace
                       /\ \A j \in 1..i : SubSeq(s, j, j) \in WhiteSpace),
           Len(s))

\* s.trim()
Trim(s) == TrimStart(TrimEnd(s))

\* the 0-based indexes >= from where pat occurs in s
Hits(s, pat, from) ==
    {i \in (IF from < 0 THEN 0 ELSE from)..(Len(s) - Len(pat)) :
        SubSeq(s, i + 1, i + Len(pat)) = pat}

\* the least element of hits, or -1
FirstOf(hits) == IF hits = {} THEN -1 ELSE SetMin(hits)

\* the greatest element of hits, or -1
LastOf(hits) == IF hits = {} THEN -1 ELSE SetMax(hits)

\* s.indexOf(pat, from): the first 0-based index >= from where pat occurs, or -1
IndexOfFrom(s, pat, from) == FirstOf(Hits(s, pat, from))

\* s.indexOf(pat)
IndexOf(s, pat) == IndexOfFrom(s, pat, 0)

\* s.lastIndexOf(pat)
LastIndexOf(s, pat) == LastOf(Hits(s, pat, 0))

\* s.includes(pat)
Includes(s, pat) == IndexOf(s, pat) # -1

\* s.startsWith(pat)
StartsWith(s, pat) == Len(s) >= Len(pat) /\ SubSeq(s, 1, Len(pat)) = pat

\* s.endsWith(pat)
EndsWith(s, pat) ==
    Len(s) >= Len(pat) /\ SubSeq(s, Len(s) - Len(pat) + 1, Len(s)) = pat

\* the lines between the cuts (the 0-based indexes of the separators) of s
LinesBetween(s, cuts) ==
    [k \in 1..(Cardinality(cuts) + 1) |->
        SubSeq(s,
               IF k = 1 THEN 1
               ELSE 2 + (CHOOSE c \in cuts : Cardinality({d \in cuts : d < c}) = k - 2),
               IF k = Cardinality(cuts) + 1 THEN Len(s)
               ELSE CHOOSE c \in cuts : Cardinality({d \in cuts : d < c}) = k - 1)]

\* s.split(sep), sep one character
Split(s, sep) == LinesBetween(s, Hits(s, sep, 0))

\* s.replaceAll(pat, rep), pat non-empty: left to right, non-overlapping
RECURSIVE ReplaceAll(_, _, _)
ReplaceAll(s, pat, rep) ==
    LET i == IndexOf(s, pat)
    IN  IF i = -1 THEN s
        ELSE Slice(s, 0, i) \o rep \o ReplaceAll(SliceFrom(s, i + Len(pat)), pat, rep)

\* the number of (possibly overlapping) occurrences of pat in s
Occurrences(s, pat) == Cardinality(Hits(s, pat, 0))

----------------------------------------------------------------------------
(* shell-env.ts: constants.                                                *)

BLOCK_START_UNIX == "# claude-sneakpeek: Z.ai env start"

BLOCK_END_UNIX == "# claude-sneakpeek: Z.ai env end"

BLOCK_START_POWERSHELL == "# claude-sneakpeek: Z.ai env start"

BLOCK_END_POWERSHELL == "# claude-sneakpeek: Z.ai env end"

PLACEHOLDER_KEY == "<API_KEY>"

ShellTypes == {"zsh", "bash", "powershell", "powershell-core", "unknown"}

IsPowerShell(shell) == shell = "powershell" \/ shell = "powershell-core"

\* normalizeApiKey without the comparison with PLACEHOLDER_KEY
normalizeApiKeyKeepingPlaceholder(value) ==
    IF value.isNull \/ ~IsString(value) \/ value.str = "" THEN NULL
    ELSE IF Trim(value.str) = "" THEN NULL ELSE Str(Trim(value.str))

\* normalizeApiKey(value): value is NULL or Str(s); the result is NULL or Str(s)
normalizeApiKey(value) ==
    IF value.isNull \/ ~IsString(value) \/ value.str = "" THEN NULL
    ELSE LET trimmed == Trim(value.str)
         IN  IF trimmed = "" \/ trimmed = PLACEHOLDER_KEY THEN NULL ELSE Str(trimmed)

\* renderBlock without its PowerShell branch
renderBlockExportOnly(apiKey, shell) ==
    BLOCK_START_UNIX \o "\nexport Z_AI_API_KEY=\"" \o apiKey \o "\"\n" \o BLOCK_END_UNIX \o "\n"

\* renderBlock(apiKey, shell)
renderBlock(apiKey, shell) ==
    IF IsPowerShell(shell)
    THEN BLOCK_START_POWERSHELL \o "\n$env:Z_AI_API_KEY=\"" \o apiKey \o "\"\n"
             \o BLOCK_END_POWERSHELL \o "\n"
    ELSE BLOCK_START_UNIX \o "\nexport Z_AI_API_KEY=\"" \o apiKey \o "\"\n"
             \o BLOCK_END_UNIX \o "\n"

\* getBlockMarkers(shell)
getBlockMarkers(shell) ==
    IF IsPowerShell(shell)
    THEN [start |-> BLOCK_START_POWERSHELL, end |-> BLOCK_END_POWERSHELL]
    ELSE [start |-> BLOCK_START_UNIX, end |-> BLOCK_END_UNIX]

\* upsertBlock leaving a content that holds both markers as it is
upsertBlockKeepingMarked(content, block, shell) ==
    IF Includes(content, getBlockMarkers(shell).start)
           /\ Includes(content, getBlockMarkers(shell).end)
    THEN content
    ELSE TrimEnd(TrimEnd(content) \o "\n\n" \o block) \o "\n"

\* upsertBlock(content, block, shell)
upsertBlock(content, block, shell) ==
    LET m == getBlockMarkers(shell)
    IN  IF Includes(content, m.start) /\ Includes(content, m.end)
        THEN LET startIndex == IndexOf(content, m.start)
                 endIndex   == IndexOfFrom(content, m.end, startIndex)
                 before     == TrimEnd(Slice(content, 0, startIndex))
                 after      == TrimStart(SliceFrom(content, endIndex + Len(m.end)))
             IN  TrimEnd(before \o "\n\n" \o block \o "\n" \o after) \o "\n"
        ELSE TrimEnd(TrimEnd(content) \o "\n\n" \o block) \o "\n"

\* parseQuotedValue trimming the text between the quotes as well
parseQuotedValueInnerTrimmed(value) ==
    LET v == Trim(value)
    IN  IF Len(v) < 2 THEN NULL
        ELSE LET firstChar == CharAt(v, 0)
                 lastChar  == CharAt(v, Len(v) - 1)
             IN  IF (firstChar = "\"" /\ lastChar = "\"") \/ (firstChar = "'" /\ lastChar = "'")
                 THEN Str(Trim(ReplaceAll(Slice(v, 1, -1), "\\" \o firstChar, firstChar)))
                 ELSE Str(v)

\* parseQuotedValue(value): NULL or Str(s)
parseQuotedValue(value) ==
    LET v == Trim(value)
    IN  IF Len(v) < 2 THEN NULL
        ELSE LET firstChar == CharAt(v, 0)
                 lastChar  == CharAt(v, Len(v) - 1)
             IN  IF (firstChar = "\"" /\ lastChar = "\"") \/ (firstChar = "'" /\ lastChar = "'")
                 THEN Str(ReplaceAll(Slice(v, 1, -1), "\\" \o firstChar, firstChar))
                 ELSE Str(v)

\* the JavaScript truthiness of a string-or-null value
Truthy(v) == ~v.isNull /\ (IsString(v) => v.str # "")

\* hasZaiKeyInProfile, lines 204-209 and 213-218: stripped is the line without
\* its prefix; TRUE when the line makes the function return true
StrippedHasZaiKey(stripped) ==
    /\ StartsWith(stripped, "Z_AI_API_KEY")
    /\ \E equalsIndex \in {IndexOf(stripped, "=")} :
           /\ equalsIndex # -1
           /\ \E value \in {parseQuotedValue(Trim(SliceFrom(stripped, equalsIndex + 1)))} :
                  Truthy(value) /\ Truthy(normalizeApiKey(value))

\* the body of the loop without the removal of the 'export ' prefix
TrimmedHasZaiKeyExportKept(trimmed, shell) ==
    IF trimmed = "" \/ StartsWith(trimmed, "#") THEN FALSE
    ELSE IF IsPowerShell(shell)
    THEN StrippedHasZaiKey(IF StartsWith(trimmed, "$env:") THEN SliceFrom(trimmed, 5)
                           ELSE trimmed)
    ELSE StrippedHasZaiKey(trimmed)

\* hasZaiKeyInProfile: the body of the loop for the trimmed line
TrimmedHasZaiKey(trimmed, shell) ==
    IF trimmed = "" \/ StartsWith(trimmed, "#") THEN FALSE
    ELSE IF IsPowerShell(shell)
    THEN StrippedHasZaiKey(IF StartsWith(trimmed, "$env:") THEN SliceFrom(trimmed, 5)
                           ELSE trimmed)
    ELSE StrippedHasZaiKey(IF StartsWith(trimmed, "export ") THEN Trim(SliceFrom(trimmed, 7))
                           ELSE trimmed)

\* hasZaiKeyInProfile: the body of the loop for one line
LineHasZaiKey(line, shell) == TrimmedHasZaiKey(Trim(line), shell)

\* hasZaiKeyInProfile(content, shell)
hasZaiKeyInProfile(content, shell) ==
    \E lines \in {Split(content, "\n")} :
        \E i \in DOMAIN lines : LineHasZaiKey(lines[i], shell)

----------------------------------------------------------------------------
(* node:path and node:fs, as far as shell-env.ts uses them.  Paths use "/"  *)
(* as their separator on every platform.                                   *)

\* p without the "/" it ends with
NoTrailingSlash(p) ==
    SubSeq(p, 1, CHOOSE n \in 0..Len(p) :
                     /\ n = 0 \/ SubSeq(p, n, n) # "/"
                     /\ \A j \in (n + 1)..Len(p) : SubSeq(p, j, j) = "/")

\* the part of q after its last "/"
LastSegment(q) == SliceFrom(q, LastIndexOf(q, "/") + 1)

\* path.basename(p): trailing separators are ignored
basename(p) == LastSegment(NoTrailingSlash(p))

\* path.dirname(p)
dirname(p) ==
    LET i == LastIndexOf(p, "/")
    IN  IF i = -1 THEN "." ELSE IF i = 0 THEN "/" ELSE Slice(p, 0, i)

\* path.join(a, b)
PathJoin(a, b) == a \o "/" \o b

\* os.homedir()
HOME == "/home/u"

ZSHRC == PathJoin(HOME, ".zshrc")

BASHRC == PathJoin(HOME, ".bashrc")

BASH_PROFILE == PathJoin(HOME, ".bash_profile")

PS5_PROFILE ==
    PathJoin(PathJoin(PathJoin(HOME, "Documents"), "WindowsPowerShell"),
             "Microsoft.PowerShell_profile.ps1")

PS7_PROFILE ==
    PathJoin(PathJoin(PathJoin(HOME, "Documents"), "PowerShell"),
             "Microsoft.PowerShell_profile.ps1")

\* a profile that $PROFILE names, outside the default locations
CUSTOM_PS_PROFILE == PathJoin(PathJoin(HOME, "dotfiles"), "profile.ps1")

\* a file whose name is no known profile name
OTHER_PROFILE == PathJoin(HOME, "profile.txt")

FilePaths ==
    {ZSHRC, BASHRC, BASH_PROFILE, PS5_PROFILE, PS7_PROFILE, CUSTOM_PS_PROFILE,
     OTHER_PROFILE}

\* the directories from d up to the root
RECURSIVE Ancestors(_)
Ancestors(d) == IF d = "/" \/ d = "." THEN {d} ELSE {d} \cup Ancestors(dirname(d))

\* fs.existsSync(p)
existsSync(fs, p) == (p \in DOMAIN fs.files /\ ~fs.files[p].isNull) \/ p \in fs.dirs

\* fs.mkdirSync(d, {recursive: true}): [threw, fs]
mkdirSync(fs, d) ==
    IF d \in fs.dirs THEN [threw |-> FALSE, fs |-> fs]
    ELSE IF fs.readOnly THEN [threw |-> TRUE, fs |-> fs]
    ELSE [threw |-> FALSE, fs |-> [fs EXCEPT !.dirs = @ \cup Ancestors(d)]]

\* fs.readFileSync(p, 'utf8') of an existing file
readFileSync(fs, p) == fs.files[p].str

\* writeFileSync adding data to what the file holds
writeFileSyncAppending(fs, p, data) ==
    IF fs.readOnly THEN [threw |-> TRUE, error |-> "EACCES: permission denied", fs |-> fs]
    ELSE IF dirname(p) \notin fs.dirs
    THEN [threw |-> TRUE, error |-> "ENOENT: no such file or directory", fs |-> fs]
    ELSE [threw |-> FALSE, error |-> "",
          fs |-> [fs EXCEPT !.files = [@ EXCEPT ![p] =
                                          Str((IF @.isNull THEN "" ELSE @.str) \o data)]]]

\* fs.writeFileSync(p, data): [threw, error, fs]
writeFileSync(fs, p, data) ==
    IF fs.readOnly THEN [threw |-> TRUE, error |-> "EACCES: permission denied", fs |-> fs]
    ELSE IF dirname(p) \notin fs.dirs
    THEN [threw |-> TRUE, error |-> "ENOENT: no such file or directory", fs |-> fs]
    ELSE [threw |-> FALSE, error |-> "",
          fs |-> [fs EXCEPT !.files = [@ EXCEPT ![p] = Str(data)]]]

----------------------------------------------------------------------------
(* shell-env.ts: detection and location.  proc is the process: its         *)
(* platform and its environment variables (NULL when unset).               *)

isWindows(proc) == proc.platform = "win32"

\* detectShell looking for the shell's name anywhere in SHELL on POSIX too
detectShellNameAnywhere(proc) ==
    IF isWindows(proc)
    THEN IF Truthy(proc.env.PSModulePath)
         THEN (IF Truthy(proc.env.PWSH) THEN "powershell-core" ELSE "powershell")
         ELSE IF Truthy(proc.env.SHELL) /\ Includes(proc.env.SHELL.str, "bash")
         THEN "bash"
         ELSE "unknown"
    ELSE IF Truthy(proc.env.SHELL) /\ Includes(proc.env.SHELL.str, "zsh") THEN "zsh"
    ELSE IF Truthy(proc.env.SHELL) /\ Includes(proc.env.SHELL.str, "bash") THEN "bash"
    ELSE "unknown"

\* detectShell()
detectShell(proc) ==
    IF isWindows(proc)
    THEN IF Truthy(proc.env.PSModulePath)
         THEN (IF Truthy(proc.env.PWSH) THEN "powershell-core" ELSE "powershell")
         ELSE IF Truthy(proc.env.SHELL) /\ Includes(proc.env.SHELL.str, "bash")
         THEN "bash"
         ELSE "unknown"
    ELSE LET shell == IF Truthy(proc.env.SHELL) THEN proc.env.SHELL.str ELSE ""
             name  == basename(shell)
         IN  IF name = "zsh" THEN "zsh" ELSE IF name = "bash" THEN "bash" ELSE "unknown"

\* resolveShellProfile giving the first candidate whether it exists or not
resolveShellProfileFirstCandidate(proc, fs) ==
    IF IsPowerShell(detectShell(proc))
    THEN (IF Truthy(proc.env.PROFILE) THEN proc.env.PROFILE
          ELSE IF detectShell(proc) = "powershell-core" THEN Str(PS7_PROFILE)
          ELSE Str(PS5_PROFILE))
    ELSE IF detectShell(proc) = "bash" THEN Str(BASHRC)
    ELSE IF detectShell(proc) = "zsh" THEN Str(ZSHRC)
    ELSE NULL

\* resolveShellProfile falling back to ~/.zshrc for an unknown shell
resolveShellProfileZshFallback(proc, fs) ==
    IF IsPowerShell(detectShell(proc))
    THEN (IF Truthy(proc.env.PROFILE) /\ existsSync(fs, proc.env.PROFILE.str)
          THEN proc.env.PROFILE
          ELSE IF detectShell(proc) = "powershell-core" THEN Str(PS7_PROFILE)
          ELSE Str(PS5_PROFILE))
    ELSE IF detectShell(proc) = "bash"
    THEN (IF existsSync(fs, BASHRC) THEN Str(BASHRC) ELSE Str(BASH_PROFILE))
    ELSE Str(ZSHRC)

\* resolveShellProfile(): NULL or Str(path)
resolveShellProfile(proc, fs) ==
    LET shell == detectShell(proc)
    IN  IF IsPowerShell(shell)
        THEN LET profileEnv == proc.env.PROFILE
             IN  IF Truthy(profileEnv) /\ existsSync(fs, profileEnv.str) THEN profileEnv
                 ELSE IF shell = "powershell-core" THEN Str(PS7_PROFILE)
                 ELSE Str(PS5_PROFILE)
        ELSE IF shell = "bash"
        THEN (IF existsSync(fs, BASHRC) THEN Str(BASHRC) ELSE Str(BASH_PROFILE))
        ELSE IF shell = "zsh" THEN Str(ZSHRC)
        ELSE NULL

\* detectShellFromPath(profilePath)
detectShellFromPath(profilePath) ==
    LET base == basename(profilePath)
    IN  IF EndsWith(base, ".ps1") THEN "powershell"
        ELSE IF base = ".zshrc" THEN "zsh"
        ELSE IF base = ".bashrc" \/ base = ".bash_profile" THEN "bash"
        ELSE "unknown"

\* readSettingsApiKey(configDir): settings is NULL when settings.json does not
\* exist, else the parsed document [env |-> NULL or [ANTHROPIC_API_KEY |-> v]]
readSettingsApiKey(settings) ==
    IF settings.isNull THEN NULL
    ELSE IF settings.env.isNull THEN NULL
    ELSE LET key == settings.env.ANTHROPIC_API_KEY
         IN  IF key.isNull \/ ~IsString(key) THEN NULL ELSE normalizeApiKey(key)

----------------------------------------------------------------------------
(* shell-env.ts: ensureZaiShellEnv.  opts is [apiKey, profilePath], each   *)
(* NULL or Str(s).  A ShellEnvResult is [status, message, path]; a call    *)
(* that ends by an uncaught exception has status "exception" and the       *)
(* error text as its message.                                              *)

Result(status, message, path) == [status |-> status, message |-> message, path |-> path]

\* normalizeApiKey(opts.apiKey) || readSettingsApiKey(opts.configDir)
ResolveApiKey(opts, settings) ==
    LET direct == normalizeApiKey(opts.apiKey)
    IN  IF Truthy(direct) THEN direct ELSE readSettingsApiKey(settings)

UnsupportedShellMessage(proc) ==
    IF isWindows(proc)
    THEN "Unsupported shell; please use PowerShell or Git Bash. Set Z_AI_API_KEY manually in settings.json."
    ELSE "Unsupported shell; set Z_AI_API_KEY manually"

Finished(result, fs) ==
    [done |-> TRUE, result |-> result, fs |-> fs, profile |-> "", shell |-> "unknown",
     existing |-> "", next |-> ""]

\* ensureZaiShellEnv, lines 270-275: render, upsert, compare
Upserted(profile, shell, fs1, existing, next) ==
    IF next = existing
    THEN Finished(Result("skipped", "Shell profile already up to date", Str(profile)), fs1)
    ELSE [done |-> FALSE, result |-> Result("pending", "", Str(profile)), fs |-> fs1,
          profile |-> profile, shell |-> shell, existing |-> existing, next |-> next]

\* ensureZaiShellEnv, lines 266-271: scan the existing content
Scanned(apiKey, profile, shell, fs1, existing) ==
    IF hasZaiKeyInProfile(existing, shell)
    THEN Finished(Result("skipped", "Z_AI_API_KEY already set in shell profile", Str(profile)),
                  fs1)
    ELSE Upserted(profile, shell, fs1, existing,
                  upsertBlock(existing, renderBlock(apiKey, shell), shell))

\* ensureZaiShellEnv, line 265: read the profile of the file system fs1 that
\* the best-effort mkdirSync (lines 258-263) left
Located(apiKey, profile, shell, fs1) ==
    Scanned(apiKey, profile, shell, fs1,
            IF existsSync(fs1, profile) THEN readFileSync(fs1, profile) ELSE "")

\* Keyed letting the failure of mkdirSync end the call
KeyedMkdirFatal(apiKey, opts, proc, fs, profile) ==
    IF ~Truthy(profile)
    THEN Finished(Result("failed", UnsupportedShellMessage(proc), NULL), fs)
    ELSE IF mkdirSync(fs, dirname(profile.str)).threw
    THEN Finished(Result("exception", "EACCES: permission denied, mkdir", NULL), fs)
    ELSE Located(apiKey, profile.str,
                 IF Truthy(opts.profilePath) THEN detectShellFromPath(opts.profilePath.str)
                 ELSE detectShell(proc),
                 mkdirSync(fs, dirname(profile.str)).fs)

\* Keyed taking the shell from the environment whatever the path
KeyedBySystem(apiKey, opts, proc, fs, profile) ==
    IF ~Truthy(profile)
    THEN Finished(Result("failed", UnsupportedShellMessage(proc), NULL), fs)
    ELSE Located(apiKey, profile.str, detectShell(proc),
                 mkdirSync(fs, dirname(profile.str)).fs)

\* ensureZaiShellEnv, lines 244-254: the profile path and the shell
Keyed(apiKey, opts, proc, fs, profile) ==
    IF ~Truthy(profile)
    THEN Finished(Result("failed", UnsupportedShellMessage(proc), NULL), fs)
    ELSE Located(apiKey, profile.str,
                 IF Truthy(opts.profilePath) THEN detectShellFromPath(opts.profilePath.str)
                 ELSE detectShell(proc),
                 mkdirSync(fs, dirname(profile.str)).fs)

\* Prepare creating the profile's directory before the check of the environment
PrepareDirFirst(opts, proc, settings, fs) ==
    IF ~Truthy(ResolveApiKey(opts, settings))
    THEN Finished(Result("skipped", "Z_AI_API_KEY not set (missing API key)", NULL), fs)
    ELSE IF Truthy(normalizeApiKey(proc.env.Z_AI_API_KEY))
    THEN Finished(Result("skipped", "Z_AI_API_KEY already set in environment", NULL),
                  IF ~opts.profilePath.isNull
                  THEN mkdirSync(fs, dirname(opts.profilePath.str)).fs
                  ELSE IF Truthy(resolveShellProfile(proc, fs))
                  THEN mkdirSync(fs, dirname(resolveShellProfile(proc, fs).str)).fs
                  ELSE fs)
    ELSE Keyed(ResolveApiKey(opts, settings).str, opts, proc, fs,
               IF ~opts.profilePath.isNull THEN opts.profilePath
               ELSE resolveShellProfile(proc, fs))

\* Prepare with the check of the environment before the check of the key
PrepareEnvFirst(opts, proc, settings, fs) ==
    IF Truthy(normalizeApiKey(proc.env.Z_AI_API_KEY))
    THEN Finished(Result("skipped", "Z_AI_API_KEY already set in environment", NULL), fs)
    ELSE IF ~Truthy(ResolveApiKey(opts, settings))
    THEN Finished(Result("skipped", "Z_AI_API_KEY not set (missing API key)", NULL), fs)
    ELSE Keyed(ResolveApiKey(opts, settings).str, opts, proc, fs,
               IF ~opts.profilePath.isNull THEN opts.profilePath
               ELSE resolveShellProfile(proc, fs))

\* ensureZaiShellEnv up to, and not including, fs.writeFileSync: either the
\* call has returned (done), or the write of next to profile is pending
Prepare(opts, proc, settings, fs) ==
    IF ~Truthy(ResolveApiKey(opts, settings))
    THEN Finished(Result("skipped", "Z_AI_API_KEY not set (missing API key)", NULL), fs)
    ELSE IF Truthy(normalizeApiKey(proc.env.Z_AI_API_KEY))
    THEN Finished(Result("skipped", "Z_AI_API_KEY already set in environment", NULL), fs)
    ELSE Keyed(ResolveApiKey(opts, settings).str, opts, proc, fs,
               IF ~opts.profilePath.isNull THEN opts.profilePath
               ELSE resolveShellProfile(proc, fs))

\* Commit writing only when the profile still holds what the call read
CommitIfUnchanged(prep, fs) ==
    IF (IF existsSync(fs, prep.profile) THEN readFileSync(fs, prep.profile) ELSE "")
           # prep.existing
    THEN [result |-> Result("skipped", "Shell profile changed", Str(prep.profile)),
          fs |-> fs, wrote |-> FALSE]
    ELSE IF writeFileSync(fs, prep.profile, prep.next).threw
    THEN [result |-> Result("exception", writeFileSync(fs, prep.profile, prep.next).error, NULL),
          fs |-> fs, wrote |-> FALSE]
    ELSE [result |-> Result("updated",
                            IF IsPowerShell(prep.shell) THEN "Run: . $PROFILE"
                            ELSE "Run: source " \o prep.profile,
                            Str(prep.profile)),
          fs |-> writeFileSync(fs, prep.profile, prep.next).fs, wrote |-> TRUE]

\* ensureZaiShellEnv from fs.writeFileSync(profile, next) to its return
Commit(prep, fs) ==
    LET w == writeFileSync(fs, prep.profile, prep.next)
    IN  IF w.threw
        THEN [result |-> Result("exception", w.error, NULL), fs |-> w.fs, wrote |-> FALSE]
        ELSE [result |-> Result("updated",
                                IF IsPowerShell(prep.shell) THEN "Run: . $PROFILE"
                                ELSE "Run: source " \o prep.profile,
                                Str(prep.profile)),
              fs |-> w.fs, wrote |-> TRUE]

\* the rest of a call whose first part gave prep: [result, fs, wrote]
Complete(prep) ==
    IF prep.done THEN [result |-> prep.result, fs |-> prep.fs, wrote |-> FALSE]
    ELSE Commit(prep, prep.fs)

\* ensureZaiShellEnv(opts), run without interruption: [result, fs, wrote]
ensureZaiShellEnv(opts, proc, settings, fs) == Complete(Prepare(opts, proc, settings, fs))

----------------------------------------------------------------------------
(* variant-tools.ts: writeSettings.                                        *)

\* the settings.json writeSettings(configDir, baseUrl, apiKey, timeoutMs, provider)
\* writes, as far as ANTHROPIC_API_KEY goes
writeSettings(apiKey, provider) ==
    IF provider = "zai"
    THEN [isNull |-> FALSE,
          env |-> [isNull |-> FALSE,
                   ANTHROPIC_API_KEY |-> Str(IF apiKey # "" THEN apiKey ELSE "<ZAI_API_KEY>")]]
    ELSE [isNull |-> FALSE,
          env |-> [isNull |-> FALSE,
                   ANTHROPIC_API_KEY |-> Str(IF apiKey # "" THEN apiKey ELSE "<MINIMAX_API_KEY>")]]

----------------------------------------------------------------------------
(* variant-tools.ts: paths and the file system of the commands.  A world w *)
(* is [files, touched]: files maps each existing path to its text (DIR for *)
(* a directory), touched is the set of file system calls made so far, each *)
(* [op, path].                                                             *)

\* the segments of a path put together again
RECURSIVE JoinWith(_, _)
JoinWith(segs, sep) ==
    IF segs = <<>> THEN ""
    ELSE IF Len(segs) = 1 THEN segs[1]
    ELSE segs[1] \o sep \o JoinWith(Tail(segs), sep)

\* node:path normalizeString: the segments from the i-th on, resolved onto out
RECURSIVE normalizeString(_, _, _, _)
normalizeString(segs, i, out, allowAboveRoot) ==
    IF i > Len(segs) THEN out
    ELSE IF segs[i] = "" \/ segs[i] = "."
    THEN normalizeString(segs, i + 1, out, allowAboveRoot)
    ELSE IF segs[i] = ".."
    THEN (IF out # <<>> /\ out[Len(out)] # ".."
          THEN normalizeString(segs, i + 1, SubSeq(out, 1, Len(out) - 1), allowAboveRoot)
          ELSE IF allowAboveRoot
          THEN normalizeString(segs, i + 1, Append(out, ".."), allowAboveRoot)
          ELSE normalizeString(segs, i + 1, out, allowAboveRoot))
    ELSE normalizeString(segs, i + 1, Append(out, segs[i]), allowAboveRoot)

\* path.normalize(p)
normalize(p) ==
    IF p = "" THEN "."
    ELSE LET isAbsolute == StartsWith(p, "/")
             trailing   == EndsWith(p, "/")
             body       == JoinWith(normalizeString(Split(p, "/"), 1, <<>>, ~isAbsolute), "/")
         IN  IF body = ""
             THEN (IF isAbsolute THEN "/" ELSE IF trailing THEN "./" ELSE ".")
             ELSE (IF isAbsolute THEN "/" ELSE "") \o body \o (IF trailing THEN "/" ELSE "")

\* path.join(...parts), parts non-empty strings
join(parts) == normalize(JoinWith(parts, "/"))

\* the text of a directory
DIR == "<dir>"

Touch(w, op, p) == [w EXCEPT !.touched = @ \cup {[op |-> op, path |-> p]}]

\* the file system resolves the '..' of a path
Exists(w, p) == normalize(p) \in DOMAIN w.files

\* fs.mkdirSync(dir, {recursive: true})
MkdirP(w, dir) ==
    [files   |-> w.files @@ [d \in Ancestors(normalize(dir)) |-> DIR],
     touched |-> w.touched \cup {[op |-> "mkdirSync", path |-> dir]}]

\* fs.writeFileSync(p, text)
WriteFile(w, p, text) ==
    [files   |-> (normalize(p) :> text) @@ w.files,
     touched |-> w.touched \cup {[op |-> "writeFileSync", path |-> p]}]

\* validatePath(targetPath): [error, w]; error is NULL or Str(message).  The
\* string test is the same whether fs.realpathSync throws or not.
validatePath(targetPath, w) ==
    [error |-> IF Includes(normalize(targetPath), "..")
               THEN Str("Path contains parent directory reference: " \o targetPath)
               ELSE NULL,
     w     |-> Touch(w, "realpathSync", targetPath)]

\* verifyNodeExecutable(filePath): the file exists and its first line is a
\* shebang that names node or bash
verifyNodeExecutable(w, filePath) ==
    /\ Exists(w, filePath)
    /\ w.files[filePath] # DIR
    /\ StartsWith(w.files[filePath], "#!")
    /\ Includes(w.files[filePath], "node") \/ Includes(w.files[filePath], "bash")

\* ensureDir(dir)
ensureDir(w, dir) ==
    IF Exists(w, dir) THEN Touch(w, "existsSync", dir)
    ELSE MkdirP(Touch(w, "existsSync", dir), dir)

\* copyFile(src, dest)
copyFile(w, src, dest) ==
    [files   |-> (dest :> w.files[src]) @@ ensureDir(w, dirname(dest)).files,
     touched |-> ensureDir(w, dirname(dest)).touched
                     \cup {[op |-> "copyFileSync", path |-> src],
                           [op |-> "copyFileSync", path |-> dest]}]

\* the settings.json text writeSettings and enableTeamMode write
SETTINGS_TEXT == "{\"env\":{}}"

TEAM_SETTINGS_TEXT == "{\"env\":{\"CLAUDE_CODE_TEAM_NAME\":\"team\"}}"

\* writeSettings(configDir, ...) as far as the file system goes
writeSettingsFile(w, configDir) ==
    WriteFile(ensureDir(w, configDir), join(<<configDir, "settings.json">>), SETTINGS_TEXT)

\* writeWrapper(name, binPath, configDir, binDir) on a POSIX system
writeWrapper(w, name, binDir) ==
    WriteFile(w, join(<<binDir, name>>), "#!/usr/bin/env bash")

Exit(status, w) == [status |-> status, w |-> w]

----------------------------------------------------------------------------
(* variant-tools.ts: the commands.  Each gives [status, w]: the exit status *)
(* and the world it leaves.                                                *)

\* buildVariants, lines 445-461: tweakcc and the wrappers
BuildTweaked(w, binDir, env) ==
    IF ~env.tweakOk THEN Exit(1, w)
    ELSE Exit(0, writeWrapper(writeWrapper(w, "zai", binDir), "minimax", binDir))

\* buildVariants, lines 426-443: verify the copies, write the settings
BuildCopied(w, rootDir, binDir, env) ==
    IF ~verifyNodeExecutable(w, join(<<rootDir, "zai", "claude">>))
           \/ ~verifyNodeExecutable(w, join(<<rootDir, "minimax", "claude">>))
    THEN Exit(1, w)
    ELSE BuildTweaked(writeSettingsFile(writeSettingsFile(w, join(<<rootDir, "zai", "config">>)),
                                        join(<<rootDir, "minimax", "config">>)),
                      binDir, env)

\* buildVariants, lines 402-424: create the directories, copy the binary
BuildChecked(w, rootDir, binDir, env) ==
    BuildCopied(copyFile(copyFile(ensureDir(ensureDir(w, rootDir), binDir),
                                  env.claudeOrig, join(<<rootDir, "zai", "claude">>)),
                         env.claudeOrig, join(<<rootDir, "minimax", "claude">>)),
                rootDir, binDir, env)

\* buildVariants, lines 365-394: find and verify the claude binary, find node
BuildValidated(w, rootDir, binDir, env) ==
    IF env.claudeOrig = "" THEN Exit(1, w)
    ELSE IF ~Exists(w, env.claudeOrig) THEN Exit(1, Touch(w, "existsSync", env.claudeOrig))
    ELSE IF ~verifyNodeExecutable(w, env.claudeOrig)
    THEN Exit(1, Touch(Touch(w, "existsSync", env.claudeOrig), "statSync", env.claudeOrig))
    ELSE IF ~env.nodeOk
    THEN Exit(1, Touch(Touch(w, "existsSync", env.claudeOrig), "statSync", env.claudeOrig))
    ELSE BuildChecked(Touch(Touch(w, "existsSync", env.claudeOrig), "statSync", env.claudeOrig),
                      rootDir, binDir, env)

\* buildVariants, lines 359-363: validate the bin directory
BuildRootValid(w, rootDir, binDir, env) ==
    IF ~validatePath(binDir, w).error.isNull THEN Exit(1, validatePath(binDir, w).w)
    ELSE BuildValidated(validatePath(binDir, w).w, rootDir, binDir, env)

\* buildVariants(opts): rootDir and binDir are the directories after the
\* defaults; env is [claudeOrig, nodeOk, tweakOk]
buildVariants(rootDir, binDir, env, w) ==
    IF ~validatePath(rootDir, w).error.isNull THEN Exit(1, validatePath(rootDir, w).w)
    ELSE BuildRootValid(validatePath(rootDir, w).w, rootDir, binDir, env)

\* the text of cli.js with team mode off and on
CLI_OFF == "function sU(){return!1}"

CLI_ON == "function sU(){return!0}"

\* the variants root of list-variants and enable-team-mode
VARIANTS_ROOT == join(<<HOME, ".claude-sneakpeek">>)

cliPathOf(variantDir) ==
    join(<<variantDir, "npm", "node_modules", "@anthropic-ai", "claude-code", "cli.js">>)

\* settings.env.CLAUDE_CODE_TEAM_NAME || settings.env.CLAUDE_CODE_AGENT_TYPE
hasTeamVars(text) ==
    Includes(text, "CLAUDE_CODE_TEAM_NAME") \/ Includes(text, "CLAUDE_CODE_AGENT_TYPE")

\* enableTeamMode, lines 613-641: the team variables in settings.json
TeamPatched(w, settingsPath) ==
    IF Exists(w, settingsPath) /\ hasTeamVars(w.files[settingsPath])
    THEN Exit(0, Touch(Touch(w, "existsSync", settingsPath), "readFileSync", settingsPath))
    ELSE Exit(0, WriteFile(ensureDir(IF Exists(w, settingsPath)
                                     THEN Touch(Touch(w, "existsSync", settingsPath),
                                                "readFileSync", settingsPath)
                                     ELSE Touch(w, "existsSync", settingsPath),
                                     dirname(settingsPath)),
                           settingsPath, TEAM_SETTINGS_TEXT))

\* enableTeamMode, lines 585-611: patch cli.js
TeamBackedUp(w, cliPath, settingsPath) ==
    IF Includes(w.files[cliPath], CLI_ON)
    THEN TeamPatched(Touch(w, "readFileSync", cliPath), settingsPath)
    ELSE IF ReplaceAll(w.files[cliPath], CLI_OFF, CLI_ON) = w.files[cliPath]
    THEN Exit(1, Touch(w, "readFileSync", cliPath))
    ELSE TeamPatched(WriteFile(Touch(w, "readFileSync", cliPath), cliPath,
                               ReplaceAll(w.files[cliPath], CLI_OFF, CLI_ON)),
                     settingsPath)

\* enableTeamMode, lines 575-583: the backup of cli.js
TeamFound(w, cliPath, settingsPath) ==
    IF Exists(w, cliPath \o ".backup")
    THEN TeamBackedUp(Touch(w, "existsSync", cliPath \o ".backup"), cliPath, settingsPath)
    ELSE TeamBackedUp([files   |-> ((cliPath \o ".backup") :> w.files[cliPath]) @@ w.files,
                       touched |-> w.touched
                                       \cup {[op |-> "existsSync", path |-> cliPath \o ".backup"],
                                             [op |-> "copyFileSync", path |-> cliPath],
                                             [op |-> "copyFileSync",
                                              path |-> cliPath \o ".backup"]}],
                      cliPath, settingsPath)

\* enableTeamMode, lines 552-569: the variant is missing; list the others
TeamMissing(w, rootDir) ==
    IF ~Exists(w, rootDir) THEN Exit(1, Touch(w, "existsSync", rootDir))
    ELSE Exit(1, [w EXCEPT !.touched =
                     @ \cup {[op |-> "existsSync", path |-> rootDir],
                             [op |-> "readdirSync", path |-> rootDir]}
                       \cup {[op |-> "statSync", path |-> p] :
                                p \in {q \in DOMAIN w.files : dirname(q) = rootDir}}])

\* enableTeamMode, lines 544-573, for the directory of the variant
TeamLocated(w, rootDir, variantDir) ==
    IF ~Exists(w, variantDir) THEN TeamMissing(Touch(w, "existsSync", variantDir), rootDir)
    ELSE IF ~Exists(w, cliPathOf(variantDir))
    THEN Exit(1, Touch(Touch(w, "existsSync", variantDir), "existsSync", cliPathOf(variantDir)))
    ELSE TeamFound(Touch(Touch(w, "existsSync", variantDir), "existsSync", cliPathOf(variantDir)),
                   cliPathOf(variantDir),
                   join(<<variantDir, "config", "settings.json">>))

\* enableTeamMode(variantName)
enableTeamMode(variantName, w) ==
    TeamLocated(w, VARIANTS_ROOT, join(<<VARIANTS_ROOT, variantName>>))

\* listVariants(): reads the variants root and, of each directory in it, the
\* config directory, settings.json and cli.js
listVariants(w) ==
    IF ~Exists(w, VARIANTS_ROOT) THEN Exit(0, Touch(w, "existsSync", VARIANTS_ROOT))
    ELSE Exit(0, [w EXCEPT !.touched =
                     @ \cup {[op |-> "existsSync", path |-> VARIANTS_ROOT],
                             [op |-> "readdirSync", path |-> VARIANTS_ROOT]}
                       \cup UNION {{[op |-> "existsSync", path |-> join(<<d, "config">>)],
                                    [op |-> "existsSync", path |-> cliPathOf(d)]}
                                   \cup (IF Exists(w, join(<<d, "config">>))
                                         THEN {[op |-> "existsSync",
                                                path |-> join(<<d, "config", "settings.json">>)]}
                                         ELSE {}) :
                                   d \in {q \in DOMAIN w.files :
                                            dirname(q) = VARIANTS_ROOT /\ w.files[q] = DIR}}])

----------------------------------------------------------------------------
(* The state: the process, the variant's settings.json, the file system,   *)
(* and the calls of ensureZaiShellEnv made so far.                         *)

VARIABLES
    proc,       \* [platform, env]: the process the tool runs in
    settings,   \* settings.json of the config directory: NULL or the document
    fsys,       \* [files, dirs, readOnly]: the profile files and directories
    history,    \* the finished calls: <<[opts, apiKey, result, before, wrote]>>
    bench,      \* the pure function under evaluation: [fn, ...] ("none" in Spec)
    calls,      \* the calls that run at the same time: [run, log]
    tool        \* the variant tools: [files, log], the files and the commands run

vars == <<proc, settings, fsys, history, bench, calls, tool>>

\* the number of successive calls of ensureZaiShellEnv a behaviour makes
MaxCalls == 2

\* a key that holds a double quote and a line break
QUOTE_NEWLINE_KEY == "\"\nb"

\* process environments without Z_AI_API_KEY: one per branch of detectShell
Systems ==
    { [platform |-> "posix", SHELL |-> Str("/bin/zsh"), PSModulePath |-> NULL,
       PWSH |-> NULL, PROFILE |-> NULL],
      [platform |-> "posix", SHELL |-> Str("/bin/bash"), PSModulePath |-> NULL,
       PWSH |-> NULL, PROFILE |-> NULL],
      [platform |-> "posix", SHELL |-> Str("/usr/bin/fish"), PSModulePath |-> NULL,
       PWSH |-> NULL, PROFILE |-> NULL],
      [platform |-> "win32", SHELL |-> NULL, PSModulePath |-> Str("C:/Modules"),
       PWSH |-> NULL, PROFILE |-> NULL],
      [platform |-> "win32", SHELL |-> NULL, PSModulePath |-> Str("C:/Modules"),
       PWSH |-> Str("1"), PROFILE |-> Str(CUSTOM_PS_PROFILE)],
      [platform |-> "win32", SHELL |-> Str("/usr/bin/bash"), PSModulePath |-> NULL,
       PWSH |-> NULL, PROFILE |-> NULL],
      [platform |-> "win32", SHELL |-> NULL, PSModulePath |-> NULL,
       PWSH |-> NULL, PROFILE |-> NULL] }

\* the values of Z_AI_API_KEY in the process environment
EnvKeys == {NULL, Str(PLACEHOLDER_KEY), Str("env-key")}

MkProc(sys, envKey) ==
    [platform |-> sys.platform,
     env |-> [SHELL |-> sys.SHELL, PSModulePath |-> sys.PSModulePath, PWSH |-> sys.PWSH,
              PROFILE |-> sys.PROFILE, Z_AI_API_KEY |-> envKey]]

\* the contents a profile file starts with
Contents ==
    { "",
      "alias ll=ls\n",
      "export Z_AI_API_KEY=\"existing-key\"\n",
      "$env:Z_AI_API_KEY=\"existing-key\"\n",
      "export Z_AI_API_KEY_OLD=\"old-key\"\n",
      "alias ll=ls\n\n" \o renderBlock(PLACEHOLDER_KEY, "zsh") \o "\nalias la=ls\n",
      "\n\n" \o renderBlock("k1", "zsh"),
      "\n\n" \o renderBlock(QUOTE_NEWLINE_KEY, "zsh"),
      renderBlock(PLACEHOLDER_KEY, "zsh") \o "\n" \o renderBlock("", "zsh"),
      BLOCK_START_UNIX \o "\n" }

\* a file system in which the files of present hold content
MkFs(present, content, readOnly) ==
    [files    |-> [p \in FilePaths |-> IF p \in present THEN Str(content) ELSE NULL],
     dirs     |-> Ancestors(HOME) \cup UNION {Ancestors(dirname(p)) : p \in present},
     readOnly |-> readOnly]

\* settings.json documents written by hand
HandSettings ==
    { NULL,
      [isNull |-> FALSE, env |-> [isNull |-> FALSE, ANTHROPIC_API_KEY |-> Num(42)]],
      [isNull |-> FALSE, env |-> [isNull |-> FALSE, ANTHROPIC_API_KEY |-> Str(" ")]],
      [isNull |-> FALSE, env |-> [isNull |-> FALSE, ANTHROPIC_API_KEY |-> Str(PLACEHOLDER_KEY)]] }

\* the opts of a call
Requests ==
    [apiKey : {NULL, Str(" "), Str(PLACEHOLDER_KEY), Str("k2"), Str(QUOTE_NEWLINE_KEY)},
     profilePath : {NULL, Str(ZSHRC), Str(PS5_PROFILE), Str(OTHER_PROFILE)}]

NoBench == [fn |-> "none"]

\* no calls at the same time
NoCalls == [run |-> <<>>, log |-> <<>>]

\* the variant tools not run
NoTool == [files |-> <<>>, log |-> <<>>]

Init ==
    /\ proc \in {MkProc(sys, k) : sys \in Systems, k \in EnvKeys}
    /\ settings \in HandSettings
    /\ fsys \in {MkFs(present, c, ro) :
                    present \in {{}, FilePaths}, c \in Contents, ro \in BOOLEAN}
    /\ history = <<>>
    /\ bench = NoBench
    /\ calls = NoCalls
    /\ tool = NoTool

\* build-variants writes the variant's settings.json (before the variant's
\* shell environment is provisioned)
BuildVariant(provider, apiKey) ==
    /\ history = <<>>
    /\ settings' = writeSettings(apiKey, provider)
    /\ UNCHANGED <<proc, fsys, history, bench, calls, tool>>

\* one call of ensureZaiShellEnv(opts); a behaviour repeats its first call
\* with identical inputs
Provision(opts) ==
    /\ Len(history) < MaxCalls
    /\ history # <<>> => opts = history[1].opts
    /\ \E out \in {ensureZaiShellEnv(opts, proc, settings, fsys)} :
           /\ fsys' = out.fs
           /\ history' = Append(history,
                                [opts   |-> opts,
                                 apiKey |-> ResolveApiKey(opts, settings),
                                 result |-> out.result,
                                 before |-> fsys,
                                 wrote  |-> out.wrote])
    /\ UNCHANGED <<proc, settings, bench, calls, tool>>

Next ==
    \/ \E provider \in {"zai", "minimax"}, apiKey \in {"", "k1"} :
           BuildVariant(provider, apiKey)
    \/ \E opts \in Requests : Provision(opts)

Spec == Init /\ [][Next]_vars

----------------------------------------------------------------------------
(* upsertBlock evaluated as a pure function: on a content put together     *)
(* from at most MaxPieces pieces, once and then once more on its result;   *)
(* hasZaiKeyInProfile evaluated on the first result.                       *)

\* the number of pieces a content is put together from
MaxPieces == 3

Pieces == {BLOCK_START_UNIX, BLOCK_END_UNIX, "\n", "alias ll=ls"}

RECURSIVE PieceContents(_)
PieceContents(n) ==
    IF n = 0 THEN {""}
    ELSE LET shorter == PieceContents(n - 1)
         IN  shorter \cup {c \o piece : c \in shorter, piece \in Pieces}

\* the state of the rest of the system while a pure function is evaluated
ParkedShell ==
    /\ proc = MkProc(CHOOSE sys \in Systems : sys.platform = "posix" /\ sys.SHELL = Str("/bin/zsh"),
                     NULL)
    /\ settings = NULL
    /\ fsys = MkFs({}, "", FALSE)
    /\ history = <<>>
    /\ calls = NoCalls

Parked == ParkedShell /\ tool = NoTool

\* the values rendered into the block
UpsertKeys == {"k1", " k ", "", PLACEHOLDER_KEY, QUOTE_NEWLINE_KEY}

InitUpsert ==
    /\ Parked
    /\ bench \in [fn : {"upsertBlock"}, content : PieceContents(MaxPieces),
                  apiKey : UpsertKeys, shell : {"zsh", "powershell"}, step : {0},
                  once : {""}, twice : {""}, scanned : {FALSE}, found : {FALSE}]

\* upsertBlock(content, block, shell)
UpsertOnce ==
    /\ bench.step = 0
    /\ bench' = [bench EXCEPT !.step = 1,
                              !.once = upsertBlock(bench.content,
                                                   renderBlock(bench.apiKey, bench.shell),
                                                   bench.shell)]
    /\ UNCHANGED <<proc, settings, fsys, history, calls, tool>>

\* upsertBlock(upsertBlock(content, block, shell), block, shell)
UpsertTwice ==
    /\ bench.step = 1
    /\ bench' = [bench EXCEPT !.step = 2,
                              !.twice = upsertBlock(bench.once,
                                                    renderBlock(bench.apiKey, bench.shell),
                                                    bench.shell)]
    /\ UNCHANGED <<proc, settings, fsys, history, calls, tool>>

\* hasZaiKeyInProfile(upsertBlock(content, block, shell), shell)
ScanUpserted ==
    /\ bench.step >= 1
    /\ ~bench.scanned
    /\ bench' = [bench EXCEPT !.scanned = TRUE,
                              !.found = hasZaiKeyInProfile(bench.once, bench.shell)]
    /\ UNCHANGED <<proc, settings, fsys, history, calls, tool>>

NextUpsert == UpsertOnce \/ UpsertTwice \/ ScanUpserted

SpecUpsert == InitUpsert /\ [][NextUpsert]_vars

----------------------------------------------------------------------------
(* parseQuotedValue evaluated as a pure function on every token of at most *)
(* MaxTokenLen characters of TokenChars.                                   *)

\* the length of the longest token
MaxTokenLen == 4

\* a letter, the two quote characters, the backslash and a blank
TokenChars == {"a", "\"", "'", "\\", " "}

RECURSIVE Tokens(_)
Tokens(n) ==
    IF n = 0 THEN {""}
    ELSE LET shorter == Tokens(n - 1)
         IN  shorter \cup {tok \o ch : tok \in shorter, ch \in TokenChars}

InitParse ==
    /\ Parked
    /\ bench \in [fn : {"parseQuotedValue"}, token : Tokens(MaxTokenLen), step : {0},
                  value : {NULL}]

\* parseQuotedValue(token)
Parse ==
    /\ bench.step = 0
    /\ bench' = [bench EXCEPT !.step = 1, !.value = parseQuotedValue(bench.token)]
    /\ UNCHANGED <<proc, settings, fsys, history, calls, tool>>

NextParse == Parse

SpecParse == InitParse /\ [][NextParse]_vars

----------------------------------------------------------------------------
(* Two calls of ensureZaiShellEnv at the same time, in two processes, with *)
(* different keys and the same profile path.  A call reads the profile     *)
(* (everything up to fs.writeFileSync) in one step and writes it in        *)
(* another; nothing orders the steps of the two calls.                     *)

Racers == {1, 2}

RacerKey(p) == IF p = 1 THEN "k1" ELSE "k2"

\* what a call keeps between its read and its write
Pending(prep) ==
    [profile |-> prep.profile, shell |-> prep.shell, existing |-> prep.existing,
     next |-> prep.next]

NoPending == [profile |-> "", shell |-> "unknown", existing |-> "", next |-> ""]

InitRace ==
    /\ proc \in {MkProc(sys, k) : sys \in Systems, k \in {NULL}}
    /\ settings = NULL
    /\ fsys \in {MkFs(present, c, ro) :
                    present \in {{}, FilePaths}, c \in Contents, ro \in BOOLEAN}
    /\ history = <<>>
    /\ bench = NoBench
    /\ tool = NoTool
    /\ \E path \in {NULL, Str(ZSHRC), Str(PS5_PROFILE)} :
           calls = [run |-> [p \in Racers |->
                                [pc |-> "start",
                                 opts |-> [apiKey |-> Str(RacerKey(p)), profilePath |-> path],
                                 pending |-> NoPending,
                                 result |-> Result("none", "", NULL)]],
                    log |-> <<>>]

\* call p runs from its start to just before fs.writeFileSync, or to its
\* return when it does not write
ReadProfile(p) ==
    /\ calls.run[p].pc = "start"
    /\ \E prep \in {Prepare(calls.run[p].opts, proc, settings, fsys)} :
           /\ fsys' = prep.fs
           /\ calls' = [run |-> [calls.run EXCEPT
                                    ![p] = [pc      |-> IF prep.done THEN "done" ELSE "write",
                                            opts    |-> @.opts,
                                            pending |-> IF prep.done THEN NoPending
                                                        ELSE Pending(prep),
                                            result  |-> IF prep.done THEN prep.result
                                                        ELSE @.result]],
                        log |-> Append(calls.log, [proc |-> p, step |-> "read"])]
    /\ UNCHANGED <<proc, settings, history, bench, tool>>

\* call p runs fs.writeFileSync(profile, next) and returns
WriteProfile(p) ==
    /\ calls.run[p].pc = "write"
    /\ \E out \in {Commit(calls.run[p].pending, fsys)} :
           /\ fsys' = out.fs
           /\ calls' = [run |-> [calls.run EXCEPT ![p] = [@ EXCEPT !.pc = "done",
                                                                   !.result = out.result]],
                        log |-> Append(calls.log, [proc |-> p, step |-> "write"])]
    /\ UNCHANGED <<proc, settings, history, bench, tool>>

NextRace == \E p \in Racers : ReadProfile(p) \/ WriteProfile(p)

SpecRace == InitRace /\ [][NextRace]_vars

----------------------------------------------------------------------------
(* The commands of the variant tools, run one after the other on the same  *)
(* files.                                                                  *)

\* the number of commands a behaviour runs
MaxCommands == 2

CLAUDE_BIN == "/usr/bin/claude"

NOT_NODE_BIN == "/usr/bin/notnode"

\* a directory that is no variant of the variants root
OUTSIDE_DIR == join(<<HOME, "other">>)

\* the directories of a variant with its cli.js
VariantTree(variantDir, cliText) ==
    (cliPathOf(variantDir) :> cliText) @@ [d \in Ancestors(dirname(cliPathOf(variantDir))) |-> DIR]

\* the files the commands may find
ToolFiles ==
    {base @@ extra :
        base \in {(CLAUDE_BIN :> "#!/usr/bin/env node") @@ (NOT_NODE_BIN :> "ELF")
                      @@ [d \in Ancestors(HOME) \cup Ancestors("/usr/bin") |-> DIR]},
        extra \in {<<>>,
                   VariantTree(join(<<VARIANTS_ROOT, "zai">>), CLI_OFF)
                       @@ VariantTree(OUTSIDE_DIR, CLI_OFF),
                   VariantTree(join(<<VARIANTS_ROOT, "zai">>), CLI_ON)
                       @@ (join(<<VARIANTS_ROOT, "zai", "config", "settings.json">>)
                               :> TEAM_SETTINGS_TEXT)
                       @@ [d \in Ancestors(join(<<VARIANTS_ROOT, "zai", "config">>)) |-> DIR]
                       @@ VariantTree(OUTSIDE_DIR, "function x(){}")}}

VariantNames == {"", "zai", "ghost", "../other", "zai/../../other"}

RootDirs == {join(<<HOME, ".cc-mirror">>), "../variants", "/home/u/.cc-mirror/../.ssh"}

BinDirs == {join(<<HOME, ".local", "bin">>), "/home/u/.local/../../bin"}

BuildEnvs == [claudeOrig : {"", CLAUDE_BIN, NOT_NODE_BIN}, nodeOk : BOOLEAN, tweakOk : BOOLEAN]

InitTools ==
    /\ ParkedShell
    /\ bench = NoBench
    /\ tool \in [files : ToolFiles, log : {<<>>}]

\* one command has run: its name, its arguments, its exit status and the file
\* system calls it made
Ran(cmd, args, exit) ==
    /\ Len(tool.log) < MaxCommands
    /\ tool' = [files |-> exit.w.files,
                log   |-> Append(tool.log, [cmd |-> cmd, args |-> args, status |-> exit.status,
                                            touched |-> exit.w.touched])]
    /\ UNCHANGED <<proc, settings, fsys, history, bench, calls>>

\* main: build-variants --root-dir rootDir --bin-dir binDir
RunBuildVariants(rootDir, binDir, env) ==
    Ran("build-variants", <<rootDir, binDir>>,
        buildVariants(rootDir, binDir, env, [files |-> tool.files, touched |-> {}]))

\* main: list-variants
RunListVariants ==
    Ran("list-variants", <<>>, listVariants([files |-> tool.files, touched |-> {}]))

\* main: enable-team-mode variantName
RunEnableTeamMode(variantName) ==
    Ran("enable-team-mode", <<variantName>>,
        IF variantName = "" THEN Exit(1, [files |-> tool.files, touched |-> {}])
        ELSE enableTeamMode(variantName, [files |-> tool.files, touched |-> {}]))

NextTools ==
    \/ \E rootDir \in RootDirs, binDir \in BinDirs, env \in BuildEnvs :
           RunBuildVariants(rootDir, binDir, env)
    \/ RunListVariants
    \/ \E variantName \in VariantNames : RunEnableTeamMode(variantName)

SpecTools == InitTools /\ [][NextTools]_vars

----------------------------------------------------------------------------
(* hasZaiKeyInProfile evaluated as a pure function on every content of at  *)
(* most MaxLines lines of ScanLines, as it is and between the two markers. *)

\* the number of lines of a content
MaxLines == 2

ScanLines ==
    { "",
      "alias ll=ls",
      "# export Z_AI_API_KEY=\"k1\"",
      "export Z_AI_API_KEY=",
      "export Z_AI_API_KEY=\"\"",
      "export Z_AI_API_KEY=\"<API_KEY>\"",
      "export Z_AI_API_KEY=\"k1\"",
      "  export   Z_AI_API_KEY='k1'  ",
      "Z_AI_API_KEY=k1",
      "$env:Z_AI_API_KEY=\"k1\"",
      "$env:Z_AI_API_KEY=\"<API_KEY>\"",
      "export Z_AI_API_KEY_OLD=\"old-key\"" }

RECURSIVE LineContents(_)
LineContents(n) ==
    IF n = 0 THEN {""}
    ELSE LET shorter == LineContents(n - 1)
         IN  ScanLines \cup {c \o "\n" \o line : c \in shorter, line \in ScanLines}

InitScan ==
    /\ Parked
    /\ bench \in [fn : {"hasZaiKeyInProfile"}, content : LineContents(MaxLines),
                  shell : {"zsh", "powershell", "unknown"}, step : {0},
                  found : {FALSE}, foundInBlock : {FALSE}]

\* hasZaiKeyInProfile(content, shell), and the same with the content between
\* the start marker line and the end marker line
ScanContent ==
    /\ bench.step = 0
    /\ bench' = [bench EXCEPT
                    !.step = 1,
                    !.found = hasZaiKeyInProfile(bench.content, bench.shell),
                    !.foundInBlock =
                        hasZaiKeyInProfile(getBlockMarkers(bench.shell).start \o "\n"
                                               \o bench.content \o "\n"
                                               \o getBlockMarkers(bench.shell).end \o "\n",
                                           bench.shell)]
    /\ UNCHANGED <<proc, settings, fsys, history, calls, tool>>

NextScan == ScanContent

SpecScan == InitScan /\ [][NextScan]_vars

----------------------------------------------------------------------------
(* ensureZaiShellEnv called with an explicit profilePath: every system,    *)
(* every profile file name, a key given and none in the environment.       *)

\* the paths a caller names
ExplicitPaths ==
    {ZSHRC, BASHRC, BASH_PROFILE, PS5_PROFILE, PS7_PROFILE, CUSTOM_PS_PROFILE}

InitExplicit ==
    /\ proc \in {MkProc(sys, NULL) : sys \in Systems}
    /\ settings = NULL
    /\ fsys \in {MkFs(present, c, ro) :
                    present \in {{}, FilePaths}, c \in Contents, ro \in BOOLEAN}
    /\ history = <<>>
    /\ bench = NoBench
    /\ calls = NoCalls
    /\ tool = NoTool

\* ensureZaiShellEnv({apiKey: 'k2', profilePath})
ProvisionAt(profilePath) ==
    Provision([apiKey |-> Str("k2"), profilePath |-> Str(profilePath)])

NextExplicit == \E profilePath \in ExplicitPaths : ProvisionAt(profilePath)

SpecExplicit == InitExplicit /\ [][NextExplicit]_vars

----------------------------------------------------------------------------
(* detectShell evaluated as a pure function of the platform and of SHELL,  *)
(* PSModulePath and PWSH.                                                  *)

\* the values of SHELL
ShellSettings ==
    { NULL, Str(""), Str("/bin/zsh"), Str("/bin/bash"), Str("/usr/bin/fish"),
      Str("zsh"), Str("bash"), Str("/usr/local/bin/zsh/"), Str("/opt/zsh/bin/rbash"),
      Str("/bin/zsh-5"), Str("/opt/bash/bin/fish"), Str("C:/Git/bin/bash.exe") }

\* the values of PSModulePath and of PWSH
SignalSettings == {NULL, Str(""), Str("C:/Modules")}

InitDetect ==
    /\ proc \in {[platform |-> pf,
                  env |-> [SHELL |-> sh, PSModulePath |-> psm, PWSH |-> pwsh,
                           PROFILE |-> NULL, Z_AI_API_KEY |-> NULL]] :
                     pf \in {"posix", "win32"}, sh \in ShellSettings,
                     psm \in SignalSettings, pwsh \in SignalSettings}
    /\ settings = NULL
    /\ fsys = MkFs({}, "", FALSE)
    /\ history = <<>>
    /\ bench = [fn |-> "detectShell", step |-> 0, shell |-> "unknown"]
    /\ calls = NoCalls
    /\ tool = NoTool

\* detectShell()
Detect ==
    /\ bench.fn = "detectShell"
    /\ bench.step = 0
    /\ bench' = [bench EXCEPT !.step = 1, !.shell = detectShell(proc)]
    /\ UNCHANGED <<proc, settings, fsys, history, calls, tool>>

NextDetect == Detect

SpecDetect == InitDetect /\ [][NextDetect]_vars

----------------------------------------------------------------------------
(* resolveShellProfile evaluated as a pure function of the environment and *)
(* of the profile files that exist.                                        *)

\* the values of PROFILE
ProfileSettings == {NULL, Str(""), Str(CUSTOM_PS_PROFILE)}

InitLocate ==
    /\ proc \in {[MkProc(sys, NULL) EXCEPT !.env.PROFILE = pr] :
                     sys \in Systems, pr \in ProfileSettings}
    /\ settings = NULL
    /\ fsys \in {MkFs(present, "alias ll=ls\n", FALSE) :
                    present \in SUBSET (FilePaths \ {OTHER_PROFILE})}
    /\ history = <<>>
    /\ bench = [fn |-> "resolveShellProfile", step |-> 0, profile |-> NULL]
    /\ calls = NoCalls
    /\ tool = NoTool

\* resolveShellProfile()
Locate ==
    /\ bench.fn = "resolveShellProfile"
    /\ bench.step = 0
    /\ bench' = [bench EXCEPT !.step = 1, !.profile = resolveShellProfile(proc, fsys)]
    /\ UNCHANGED <<proc, settings, fsys, history, calls, tool>>

NextLocate == Locate

SpecLocate == InitLocate /\ [][NextLocate]_vars

----------------------------------------------------------------------------
(* What the claims speak of, stated without the code's own helpers where   *)
(* the claim gives the condition itself.                                   *)

\* a key value that counts as no key: absent, not a string, empty, white space
\* or the placeholder '<API_KEY>'
KeyAbsent(v) == v.isNull \/ ~IsString(v) \/ Trim(v.str) \in {"", "<API_KEY>"}

\* settings.json gives no key
SettingsKeyAbsent(doc) ==
    doc.isNull \/ doc.env.isNull \/ KeyAbsent(doc.env.ANTHROPIC_API_KEY)

\* Z_AI_API_KEY is non-empty and no placeholder in the process environment
EnvHasKey == ~KeyAbsent(proc.env.Z_AI_API_KEY)

\* the profile path of call h: NULL or Str(path)
ProfileFor(h) ==
    IF ~h.opts.profilePath.isNull THEN h.opts.profilePath
    ELSE resolveShellProfile(proc, h.before)

\* the shell of call h
ShellFor(h) ==
    IF ~h.opts.profilePath.isNull THEN detectShellFromPath(h.opts.profilePath.str)
    ELSE detectShell(proc)

\* the file system as call i left it: nothing but the calls changes it
After(i) == IF i < Len(history) THEN history[i + 1].before ELSE fsys

\* the content of file p in fs; "" when it does not exist
ContentAt(fs, p) == IF fs.files[p].isNull THEN "" ELSE fs.files[p].str

\* the content call h found in its profile
ExistingFor(h) == ContentAt(h.before, ProfileFor(h).str)

\* the assignment line of value v in the syntax of the profile p
AssignmentLine(p, v) ==
    IF EndsWith(p, ".ps1") THEN "$env:Z_AI_API_KEY=\"" \o v \o "\""
    ELSE "export Z_AI_API_KEY=\"" \o v \o "\""

\* content holds, on a line of its own, the assignment of v in the syntax of p
HoldsAssignment(content, p, v) ==
    \E lines \in {Split(content, "\n")} :
        \E k \in DOMAIN lines : Trim(lines[k]) = AssignmentLine(p, v)

\* the values the profiles of Contents assign
AssignedValues == {"existing-key", "k1"}

Placeholders == {"<API_KEY>", "<ZAI_API_KEY>", "<MINIMAX_API_KEY>"}

----------------------------------------------------------------------------
(* Claims.                                                                 *)

\* C1: with Z_AI_API_KEY unset in the environment, when a call returns
\* 'updated', the next call with identical inputs returns 'skipped' ('Shell
\* profile already up to date' or 'Z_AI_API_KEY already set in shell profile')
\* and leaves the file content as the first call left it.
C1_RepeatSkipped ==
    \A i \in 1..(Len(history) - 1) :
        (history[i].result.status = "updated" /\ proc.env.Z_AI_API_KEY.isNull)
            => /\ history[i + 1].result.status = "skipped"
               /\ history[i + 1].result.message \in
                      {"Shell profile already up to date",
                       "Z_AI_API_KEY already set in shell profile"}
               /\ After(i + 1).files = After(i).files

\* C2: upsertBlock is idempotent: upsertBlock(upsertBlock(C, B), B) equals
\* upsertBlock(C, B) for every content C and rendered block B.
C2_UpsertIdempotent ==
    (bench.fn = "upsertBlock" /\ bench.step = 2) => bench.twice = bench.once

\* C3: a file written by a call that returns 'updated' holds the start marker
\* exactly once and the end marker exactly once.
C3_OneBlock ==
    \A i \in DOMAIN history :
        history[i].result.status = "updated"
            => \E c \in {ContentAt(After(i), history[i].result.path.str)} :
                   /\ Occurrences(c, BLOCK_START_UNIX) = 1
                   /\ Occurrences(c, BLOCK_END_UNIX) = 1

\* the case of C4: call h has a profile whose content assigns a value other
\* than the key the call resolved
C4_Case(h) ==
    /\ ~KeyAbsent(h.apiKey)
    /\ ~ProfileFor(h).isNull
    /\ \E v \in AssignedValues :
           v # h.apiKey.str /\ HoldsAssignment(ExistingFor(h), ProfileFor(h).str, v)

C4_Outcome(i) ==
    /\ history[i].result.status = "skipped"
    /\ Includes(history[i].result.message, "already set in shell profile")
    /\ After(i) = history[i].before

C5_Rule(h) ==
    IF KeyAbsent(h.opts.apiKey) /\ SettingsKeyAbsent(settings) THEN 1
    ELSE IF EnvHasKey THEN 2
    ELSE IF ProfileFor(h).isNull THEN 3
    ELSE IF hasZaiKeyInProfile(ExistingFor(h), ShellFor(h)) THEN 4
    ELSE IF upsertBlock(ExistingFor(h), renderBlock(h.apiKey.str, ShellFor(h)), ShellFor(h))
                = ExistingFor(h) THEN 5
    ELSE 6

\* the outcome the rule gives (for rule 6, on a file system that takes the write)
C5_Outcome(h, rule) ==
    CASE rule = 1 -> h.result.status = "skipped" /\ Includes(h.result.message, "missing API key")
      [] rule = 2 -> /\ h.result.status = "skipped"
                     /\ Includes(h.result.message, "already set in environment")
      [] rule = 3 -> h.result.status = "failed"
      [] rule = 4 -> /\ h.result.status = "skipped"
                     /\ Includes(h.result.message, "already set in shell profile")
      [] rule = 5 -> h.result.status = "skipped" /\ Includes(h.result.message, "already up to date")
      [] OTHER    -> h.before.readOnly \/ (h.wrote /\ h.result.status = "updated")

C6_NoException ==
    \A i \in DOMAIN history : history[i].result.status \in {"updated", "skipped", "failed"}

\* the case of C7: neither opts.apiKey nor settings.json gives a key
C7_Case(h) == KeyAbsent(h.opts.apiKey) /\ SettingsKeyAbsent(settings)

\* C7: when neither opts.apiKey nor settings.json gives a key, the call
\* returns 'skipped' with 'missing API key' and creates no file or directory.
C7_MissingKeySkips ==
    \A i \in DOMAIN history :
        C7_Case(history[i])
            => /\ history[i].result.status = "skipped"
               /\ Includes(history[i].result.message, "missing API key")
               /\ After(i) = history[i].before

\* settings.json holds '<API_KEY>', and the profile named does not exist
C7_Witness ==
    \E i \in DOMAIN history :
        /\ C7_Case(history[i])
        /\ ~settings.isNull /\ settings.env.ANTHROPIC_API_KEY = Str("<API_KEY>")
        /\ ~history[i].opts.profilePath.isNull
        /\ fsys.files[history[i].opts.profilePath.str].isNull
        /\ history[i].result.status = "skipped"

\* C8: no call writes an assignment of a placeholder to a profile: an
\* assignment Z_AI_API_KEY="<placeholder>" in the file after the call was
\* in the file before it.
C8_NoPlaceholderWritten ==
    \A i \in DOMAIN history :
        history[i].wrote
            => \A ph \in Placeholders :
                   Includes(ContentAt(After(i), history[i].result.path.str),
                            "Z_AI_API_KEY=\"" \o ph \o "\"")
                       => Includes(ContentAt(history[i].before, history[i].result.path.str),
                                   "Z_AI_API_KEY=\"" \o ph \o "\"")

\* the block of key k in the two syntaxes
ExportBlock(k) ==
    BLOCK_START_UNIX \o "\n" \o "export Z_AI_API_KEY=\"" \o k \o "\"" \o "\n" \o BLOCK_END_UNIX

EnvBlock(k) ==
    BLOCK_START_POWERSHELL \o "\n" \o "$env:Z_AI_API_KEY=\"" \o k \o "\"" \o "\n"
        \o BLOCK_END_POWERSHELL

\* what C9 says of a call that returned 'updated' for key k on path p, the
\* file then holding c
C9_Outcome(p, k, c, message) ==
    /\ basename(p) \in {".zshrc", ".bashrc", ".bash_profile"}
           => Includes(c, ExportBlock(k)) /\ message = "Run: source " \o p
    /\ EndsWith(p, ".ps1")
           => /\ Includes(c, EnvBlock(k))
              /\ ~Includes(c, ExportBlock(k))
              /\ message = "Run: . $PROFILE"

\* C9: after 'updated' for key k the file holds the start marker line, the
\* assignment line of k and the end marker line: export Z_AI_API_KEY="k" and
\* 'Run: source <path>' for .zshrc, .bashrc and .bash_profile,
\* $env:Z_AI_API_KEY="k" (not the export form) and 'Run: . $PROFILE' for *.ps1.
C9_BlockWritten ==
    \A i \in DOMAIN history :
        history[i].result.status = "updated"
            => C9_Outcome(history[i].result.path.str, history[i].apiKey.str,
                          ContentAt(After(i), history[i].result.path.str),
                          history[i].result.message)

C9_Witness ==
    \E i \in DOMAIN history :
        /\ history[i].result.status = "updated"
        /\ EndsWith(history[i].result.path.str, ".ps1")
        /\ history[i].before.files[history[i].result.path.str] # NULL

\* the case of C10: no explicit path, a key, no key in the environment, and
\* detectShell gives 'unknown'
C10_Case(h) ==
    /\ h.opts.profilePath.isNull
    /\ ~(KeyAbsent(h.opts.apiKey) /\ SettingsKeyAbsent(settings))
    /\ ~EnvHasKey
    /\ detectShell(proc) = "unknown"

\* C10: without an explicit path, with a key, with Z_AI_API_KEY unset and
\* detectShell 'unknown', the call returns 'failed' with an 'Unsupported shell'
\* message that says to set the variable manually, and creates no directory
\* and writes no file.
C10_UnknownShellFails ==
    \A i \in DOMAIN history :
        C10_Case(history[i])
            => /\ history[i].result.status = "failed"
               /\ Includes(history[i].result.message, "Unsupported shell")
               /\ Includes(history[i].result.message, "manually")
               /\ After(i) = history[i].before
               /\ ~history[i].wrote

C10_Witness ==
    \E i \in DOMAIN history : C10_Case(history[i]) /\ history[i].result.status = "failed"

\* C11: a call whose dialect is 'unknown' (also when an explicit profile path
\* of an unknown name gives it) writes no block and does not return 'updated'.
C11_UnknownNeverWrites ==
    \A i \in DOMAIN history :
        ShellFor(history[i]) = "unknown"
            => ~history[i].wrote /\ history[i].result.status # "updated"

\* the two quote characters
QuoteChars == {"\"", "'"}

\* parseQuotedValue has been applied to bench.token
Parsed == bench.fn = "parseQuotedValue" /\ bench.step = 1

\* C12: a token that after trimming is one bare (unquoted) character is
\* returned as that character, and a token of fewer than 2 characters gives
\* null only when it is empty or a lone quote character.
C12_BareCharKept ==
    Parsed =>
        \E tok \in {Trim(bench.token)} :
            /\ (Len(tok) = 1 /\ tok \notin QuoteChars) => bench.value = Str(tok)
            /\ (Len(tok) < 2 /\ bench.value = NULL) => (tok = "" \/ tok \in QuoteChars)

\* bench.token is V between double quotes, V without double quote and backslash
C13_Case ==
    /\ Parsed
    /\ Len(bench.token) >= 2
    /\ CharAt(bench.token, 0) = "\"" /\ CharAt(bench.token, Len(bench.token) - 1) = "\""
    /\ ~Includes(Slice(bench.token, 1, -1), "\"")
    /\ ~Includes(Slice(bench.token, 1, -1), "\\")

\* C13: for V without double quote and backslash, parseQuotedValue of V
\* between double quotes is V.
C13_RoundTrip == C13_Case => bench.value = Str(Slice(bench.token, 1, -1))

\* V holds a single quote and ends in a blank
C13_Witness ==
    /\ C13_Case
    /\ Includes(Slice(bench.token, 1, -1), "'")
    /\ EndsWith(Slice(bench.token, 1, -1), " ")
    /\ bench.value = Str(Slice(bench.token, 1, -1))

\* s with every backslash that a character q follows dropped, left to right
RECURSIVE Unescaped(_, _)
Unescaped(s, q) ==
    IF s = "" THEN ""
    ELSE IF Len(s) >= 2 /\ SubSeq(s, 1, 1) = "\\" /\ SubSeq(s, 2, 2) = q
    THEN q \o Unescaped(SubSeq(s, 3, Len(s)), q)
    ELSE SubSeq(s, 1, 1) \o Unescaped(SubSeq(s, 2, Len(s)), q)

\* tok begins and ends with the same quote character
Quoted(tok) ==
    /\ Len(tok) >= 1
    /\ SubSeq(tok, 1, 1) \in QuoteChars
    /\ SubSeq(tok, Len(tok), Len(tok)) = SubSeq(tok, 1, 1)

\* C14: a trimmed token between two equal quote characters gives its interior
\* with every backslash-quote pair of that quote character replaced by the
\* quote character and nothing else changed; any other token is returned as
\* it is after trimming.
C14_StripAndUnescape ==
    Parsed =>
        \E tok \in {Trim(bench.token)} :
            /\ (Quoted(tok) /\ Len(tok) >= 2)
                   => bench.value = Str(Unescaped(SubSeq(tok, 2, Len(tok) - 1),
                                                  SubSeq(tok, 1, 1)))
            /\ ~Quoted(tok) => bench.value = Str(tok)

\* upsertBlock has been applied to bench.content
UpsertDone == bench.fn = "upsertBlock" /\ bench.step >= 1

\* the first result of upsertBlock has been scanned
ScanDone == bench.fn = "upsertBlock" /\ bench.scanned

\* C15 as stated: for every value V without the marker text and every content
\* C, hasZaiKeyInProfile is true of upsertBlock(C, renderBlock(V, d), d).
C15_Original ==
    (ScanDone /\ ~Includes(bench.apiKey, BLOCK_START_UNIX)
              /\ ~Includes(bench.apiKey, BLOCK_END_UNIX))
        => bench.found

\* V is a value the scanner counts: not empty and not '<API_KEY>' once
\* trimmed, on one line, and without the marker text
C15_Case ==
    /\ ScanDone
    /\ Trim(bench.apiKey) \notin {"", PLACEHOLDER_KEY}
    /\ ~Includes(bench.apiKey, "\n")
    /\ ~Includes(bench.apiKey, BLOCK_START_UNIX)
    /\ ~Includes(bench.apiKey, BLOCK_END_UNIX)

\* C15 amended: for every value V that is not empty and not '<API_KEY>' once
\* trimmed, holds no line break and no marker text, and for every content C,
\* hasZaiKeyInProfile is true of upsertBlock(C, renderBlock(V, d), d).
C15_RenderedIsFound == C15_Case => bench.found

\* the block replaced one that the content held, in the PowerShell syntax
C15_Witness ==
    /\ C15_Case
    /\ bench.shell = "powershell"
    /\ Includes(bench.content, BLOCK_START_POWERSHELL)
    /\ IndexOfFrom(bench.content, BLOCK_END_POWERSHELL,
                   IndexOf(bench.content, BLOCK_START_POWERSHELL)) # -1
    /\ bench.found

\* before, block and after with one blank line between block and text, ending
\* in one line break; before a block with no text in front of it the blank
\* line may be there or not
C18_Joined(before, block, after) ==
    {TrimEnd(pre \o block \o (IF after = "" THEN "" ELSE "\n" \o after)) \o "\n" :
        pre \in (IF before = "" THEN {"", "\n\n"} ELSE {before \o "\n\n"})}

\* the ends of the replaced region that C18 allows: the end of the first end
\* marker at or after the first start marker; without such an end marker, any
\* place from the end of the start marker on
C18_Cuts(content, startIndex, endIndex) ==
    IF endIndex # -1 THEN {endIndex + Len(BLOCK_END_UNIX)}
    ELSE (startIndex + Len(BLOCK_START_UNIX))..Len(content)

\* C18: for a content with both markers the result is the text before the
\* first start marker, the block, and the text after the replaced region, one
\* blank line between them; no text of the content is duplicated, also when
\* the only end marker is before the first start marker.
C18_RegionReplaced ==
    (UpsertDone /\ Includes(bench.content, BLOCK_START_UNIX)
                /\ Includes(bench.content, BLOCK_END_UNIX))
        => \E startIndex \in {IndexOf(bench.content, BLOCK_START_UNIX)} :
               \E cut \in C18_Cuts(bench.content, startIndex,
                                   IndexOfFrom(bench.content, BLOCK_END_UNIX, startIndex)) :
                   bench.once \in C18_Joined(TrimEnd(Slice(bench.content, 0, startIndex)),
                                             renderBlock(bench.apiKey, bench.shell),
                                             TrimStart(SliceFrom(bench.content, cut)))

\* C19: for a content without both markers the result is the content without
\* its trailing white space, one blank line, and the block, ending in one
\* line break; for an empty content nothing precedes the block.
C19_Appended ==
    (UpsertDone /\ ~(Includes(bench.content, BLOCK_START_UNIX)
                     /\ Includes(bench.content, BLOCK_END_UNIX)))
        => bench.once =
               (IF TrimEnd(bench.content) = "" THEN ""
                ELSE TrimEnd(bench.content) \o "\n\n")
                   \o TrimEnd(renderBlock(bench.apiKey, bench.shell)) \o "\n"

\* both calls have returned
RaceDone == calls.run # <<>> /\ \A p \in Racers : calls.run[p].pc = "done"

\* content holds the assignment of the key of call p
HoldsKeyOf(content, p) == Includes(content, "Z_AI_API_KEY=\"" \o RacerKey(p) \o "\"")

\* both calls read before either wrote, and both went on to write
C16_Interleaved ==
    /\ RaceDone
    /\ Len(calls.log) = 4
    /\ calls.log[1].step = "read" /\ calls.log[2].step = "read"

\* one call returned before the other started
C16_Sequential ==
    /\ RaceDone
    /\ Len(calls.log) >= 3
    /\ calls.log[1].step = "read" /\ calls.log[2].step = "write"
    /\ calls.log[3].step = "read"

\* C16: on a file system that takes the writes, when both calls read before
\* either writes, both return 'updated' and the file holds the value of the
\* later writer and not that of the earlier one; when one call returns
\* 'updated' before the other starts, the other is skipped and writes nothing.
C16_LostUpdate ==
    /\ (C16_Interleaved /\ ~fsys.readOnly)
           => /\ \A p \in Racers : calls.run[p].result.status = "updated"
              /\ \E c \in {ContentAt(fsys, calls.run[calls.log[4].proc].result.path.str)} :
                     /\ HoldsKeyOf(c, calls.log[4].proc)
                     /\ ~HoldsKeyOf(c, calls.log[3].proc)
    /\ (C16_Sequential /\ calls.run[calls.log[1].proc].result.status = "updated")
           => /\ Len(calls.log) = 3
              /\ calls.run[calls.log[3].proc].result.status = "skipped"
              /\ \E c \in {ContentAt(fsys, calls.run[calls.log[1].proc].result.path.str)} :
                     /\ HoldsKeyOf(c, calls.log[1].proc)
                     /\ ~HoldsKeyOf(c, calls.log[3].proc)

\* both calls read, then both wrote, both returned 'updated', and the value of
\* the first writer is not in the file
C16_Witness ==
    /\ C16_Interleaved
    /\ \A p \in Racers : calls.run[p].result.status = "updated"
    /\ ~HoldsKeyOf(ContentAt(fsys, calls.run[calls.log[3].proc].result.path.str),
                   calls.log[3].proc)

\* path p is the directory root or lies in it
Inside(p, root) == p = root \/ StartsWith(p, root \o "/")

\* C17: a command whose variant name or directory argument holds '..' fails
\* before it makes any file system call, and no file system call of
\* list-variants and enable-team-mode is for a path outside the variants root.
C17_NoEscape ==
    \A i \in DOMAIN tool.log :
        /\ (\E k \in DOMAIN tool.log[i].args : Includes(tool.log[i].args[k], ".."))
               => tool.log[i].status = 1 /\ tool.log[i].touched = {}
        /\ tool.log[i].cmd \in {"list-variants", "enable-team-mode"}
               => \A a \in tool.log[i].touched : Inside(a.path, VARIANTS_ROOT)

\* the line is an assignment of Z_AI_API_KEY in the syntax of the shell: after
\* the prefix, the name and directly after it '='
NamesTarget(line, shell) ==
    \E trimmed \in {Trim(line)} :
        \/ StartsWith(trimmed, "Z_AI_API_KEY=")
        \/ IsPowerShell(shell) /\ StartsWith(trimmed, "$env:Z_AI_API_KEY=")
        \/ ~IsPowerShell(shell) /\ StartsWith(trimmed, "export ")
               /\ StartsWith(Trim(SliceFrom(trimmed, 7)), "Z_AI_API_KEY=")

\* the case of C20: call h gets to the scan of a profile none of whose lines
\* assigns Z_AI_API_KEY
C20_Case(h) ==
    /\ ~KeyAbsent(h.apiKey)
    /\ ~EnvHasKey
    /\ ~ProfileFor(h).isNull
    /\ \E lines \in {Split(ExistingFor(h), "\n")} :
           \A k \in DOMAIN lines : ~NamesTarget(lines[k], ShellFor(h))

\* C20: a profile without a line that assigns Z_AI_API_KEY (the name directly
\* followed by '=') does not make the call skip with 'already set in shell
\* profile'; a line such as Z_AI_API_KEY_OLD="x" does not count.
C20_OtherNameIgnored ==
    \A i \in DOMAIN history :
        C20_Case(history[i])
            => ~Includes(history[i].result.message, "already set in shell profile")

\* the line counts for C21: not empty, no comment, an assignment of
\* Z_AI_API_KEY whose right-hand side parseQuotedValue gives as a value that
\* is not empty and not '<API_KEY>'
C21_Qualifies(line, shell) ==
    /\ Trim(line) # ""
    /\ ~StartsWith(Trim(line), "#")
    /\ NamesTarget(line, shell)
    /\ \E value \in {parseQuotedValue(Trim(SliceFrom(line, IndexOf(line, "=") + 1)))} :
           ~value.isNull /\ Trim(value.str) \notin {"", PLACEHOLDER_KEY}

\* C21: hasZaiKeyInProfile is true exactly when some line of the content
\* counts, and the same whether the content is between the markers or not.
C21_EffectiveIff ==
    (bench.fn = "hasZaiKeyInProfile" /\ bench.step = 1)
        => /\ bench.found <=> \E lines \in {Split(bench.content, "\n")} :
                                  \E k \in DOMAIN lines : C21_Qualifies(lines[k], bench.shell)
           /\ bench.foundInBlock = bench.found

\* C22: a call writes the profile exactly when it returns 'updated', and then
\* the file holds the upsert result as a whole and no other file changes; a
\* call that returns 'skipped' or 'failed' leaves the content of every file
\* as it was.
C22_WrittenOnce ==
    \A i \in DOMAIN history :
        /\ history[i].wrote <=> history[i].result.status = "updated"
        /\ history[i].result.status \in {"skipped", "failed"}
               => After(i).files = history[i].before.files
        /\ history[i].result.status = "updated"
               => /\ \A p \in FilePaths :
                         p # history[i].result.path.str
                             => After(i).files[p] = history[i].before.files[p]
                  /\ After(i).files[history[i].result.path.str] =
                         Str(upsertBlock(ExistingFor(history[i]),
                                         renderBlock(history[i].apiKey.str, ShellFor(history[i])),
                                         ShellFor(history[i])))

\* a profile with text in it was written
C22_Witness ==
    \E i \in DOMAIN history :
        /\ history[i].wrote
        /\ history[i].result.status = "updated"
        /\ Includes(ExistingFor(history[i]), "alias ll=ls")
        /\ After(i).files # history[i].before.files

\* C23: when a key is resolvable and Z_AI_API_KEY is non-empty and no
\* placeholder in the process environment, the call returns 'skipped' with
\* 'already set in environment' and names no profile; it leaves the file
\* system as it was: the profile's parent directory is not created and no file
\* is written, whatever the profile holds.
C23_EnvSkipsUntouched ==
    \A i \in DOMAIN history :
        (/\ ~(KeyAbsent(history[i].opts.apiKey) /\ SettingsKeyAbsent(settings))
         /\ EnvHasKey)
        => /\ history[i].result.status = "skipped"
           /\ Includes(history[i].result.message, "already set in environment")
           /\ history[i].result.path = NULL
           /\ ~history[i].wrote
           /\ After(i) = history[i].before

\* a call with a key, with Z_AI_API_KEY set in the environment, for a profile
\* whose parent directory does not exist: skipped, and the directory still
\* does not exist
C23_Witness ==
    \E i \in DOMAIN history :
        /\ ~KeyAbsent(history[i].opts.apiKey)
        /\ EnvHasKey
        /\ ~ProfileFor(history[i]).isNull
        /\ dirname(ProfileFor(history[i]).str) \notin history[i].before.dirs
        /\ ~history[i].before.readOnly
        /\ history[i].result.status = "skipped"
        /\ dirname(ProfileFor(history[i]).str) \notin After(i).dirs

\* call i has a key, finds no Z_AI_API_KEY in the environment, has a profile,
\* and the profile's parent directory does not exist
C24_DirMissing(i) ==
    /\ ~(KeyAbsent(history[i].opts.apiKey) /\ SettingsKeyAbsent(settings))
    /\ ~EnvHasKey
    /\ ~ProfileFor(history[i]).isNull
    /\ dirname(ProfileFor(history[i]).str) \notin history[i].before.dirs

\* C24: the creation of the profile's parent directory is best-effort.  When
\* the directory is missing and can be created, it exists after the call and
\* the result is 'updated' or 'skipped'.  When its creation fails, the call
\* goes on: it ends as the write of the block to the profile ends, with the
\* outcome of that write and not with a 'failed' result.
C24_MkdirBestEffort ==
    \A i \in DOMAIN history :
        C24_DirMissing(i) =>
            /\ ~history[i].before.readOnly
               => /\ dirname(ProfileFor(history[i]).str) \in After(i).dirs
                  /\ history[i].result.status \in {"updated", "skipped"}
            /\ history[i].before.readOnly
               => \E w \in {writeFileSync(history[i].before, ProfileFor(history[i]).str,
                                          upsertBlock("", renderBlock(history[i].apiKey.str,
                                                                      ShellFor(history[i])),
                                                      ShellFor(history[i])))} :
                      /\ history[i].result.status # "failed"
                      /\ w.threw => /\ history[i].result.status = "exception"
                                    /\ history[i].result.message = w.error
                      /\ ~w.threw => history[i].result.status = "updated"

\* a call that could not create the missing directory and went on to the
\* write of the profile
C24_Witness ==
    \E i \in DOMAIN history :
        /\ C24_DirMissing(i)
        /\ history[i].before.readOnly
        /\ history[i].result.status = "exception"
        /\ dirname(ProfileFor(history[i]).str) \notin After(i).dirs

\* the file name of path p
C25_FileName(p) == SliceFrom(p, LastIndexOf(p, "/") + 1)

\* the dialect the claim gives for a file name
C25_Dialect(p) ==
    IF EndsWith(C25_FileName(p), ".ps1") THEN "powershell"
    ELSE IF C25_FileName(p) = ".zshrc" THEN "zsh"
    ELSE IF C25_FileName(p) \in {".bashrc", ".bash_profile"} THEN "bash"
    ELSE "none"

C26_Set(v) == ~v.isNull /\ v.str # ""

\* the base name of SHELL: its last segment that is not empty, "" when SHELL
\* is unset or has none
C26_BaseName(v) ==
    IF ~C26_Set(v) THEN ""
    ELSE LET segs == Split(v.str, "/")
             full == {k \in DOMAIN segs : segs[k] # ""}
         IN  IF full = {} THEN "" ELSE segs[SetMax(full)]

\* C26: detectShell returns a shell type for every environment.  On Windows:
\* 'powershell-core' when PSModulePath and PWSH are set, 'powershell' when
\* PSModulePath is set and PWSH is not, whatever SHELL is; 'bash' when
\* PSModulePath is unset and SHELL contains 'bash'; 'unknown' otherwise.  On
\* POSIX: 'zsh' or 'bash' when the base name of SHELL is exactly that,
\* 'unknown' otherwise.
C26_DetectTable ==
    (bench.fn = "detectShell" /\ bench.step = 1)
    => /\ bench.shell \in {"zsh", "bash", "powershell", "powershell-core", "unknown"}
       /\ proc.platform = "win32"
          => /\ (C26_Set(proc.env.PSModulePath) /\ C26_Set(proc.env.PWSH))
                => bench.shell = "powershell-core"
             /\ (C26_Set(proc.env.PSModulePath) /\ ~C26_Set(proc.env.PWSH))
                => bench.shell = "powershell"
             /\ (~C26_Set(proc.env.PSModulePath) /\ C26_Set(proc.env.SHELL)
                    /\ Includes(proc.env.SHELL.str, "bash"))
                => bench.shell = "bash"
             /\ (~C26_Set(proc.env.PSModulePath)
                    /\ ~(C26_Set(proc.env.SHELL) /\ Includes(proc.env.SHELL.str, "bash")))
                => bench.shell = "unknown"
       /\ proc.platform # "win32"
          => /\ C26_BaseName(proc.env.SHELL) = "zsh" => bench.shell = "zsh"
             /\ C26_BaseName(proc.env.SHELL) = "bash" => bench.shell = "bash"
             /\ C26_BaseName(proc.env.SHELL) \notin {"zsh", "bash"}
                => bench.shell = "unknown"

\* on POSIX, a SHELL that holds 'zsh' and 'bash' with neither as its base
\* name gave 'unknown'
C26_Witness ==
    /\ bench.fn = "detectShell"
    /\ bench.step = 1
    /\ proc.platform = "posix"
    /\ proc.env.SHELL = Str("/opt/zsh/bin/rbash")
    /\ C26_Set(proc.env.PSModulePath)
    /\ bench.shell = "unknown"

\* the file p exists
C27_FileExists(p) == p \in DOMAIN fsys.files /\ ~fsys.files[p].isNull

\* C27: without an explicit path the profile is, for bash, ~/.bashrc when that
\* file exists and ~/.bash_profile otherwise (so an existing ~/.bash_profile
\* is taken when ~/.bashrc does not exist); for PowerShell, the file PROFILE
\* names when that file exists and otherwise the default of the version under
\* Documents; for zsh, ~/.zshrc.
C27_ExistingPreferred ==
    (bench.fn = "resolveShellProfile" /\ bench.step = 1)
    => /\ detectShell(proc) = "bash"
          => bench.profile = IF C27_FileExists(HOME \o "/.bashrc")
                             THEN Str(HOME \o "/.bashrc")
                             ELSE Str(HOME \o "/.bash_profile")
       /\ detectShell(proc) \in {"powershell", "powershell-core"}
          => bench.profile =
                IF C26_Set(proc.env.PROFILE) /\ C27_FileExists(proc.env.PROFILE.str)
                THEN proc.env.PROFILE
                ELSE IF detectShell(proc) = "powershell-core"
                THEN Str(HOME \o "/Documents/PowerShell/Microsoft.PowerShell_profile.ps1")
                ELSE Str(HOME \o "/Documents/WindowsPowerShell/Microsoft.PowerShell_profile.ps1")
       /\ detectShell(proc) = "zsh" => bench.profile = Str(HOME \o "/.zshrc")

\* bash with no ~/.bashrc and an existing ~/.bash_profile: ~/.bash_profile
C27_Witness ==
    /\ bench.fn = "resolveShellProfile"
    /\ bench.step = 1
    /\ detectShell(proc) = "bash"
    /\ ~C27_FileExists(BASHRC)
    /\ C27_FileExists(BASH_PROFILE)
    /\ bench.profile = Str(BASH_PROFILE)

====
